---------------------------- MODULE Spec2Model ----------------------------
(***************************************************************************)
(* A model of c10/util/Logging.h: the CAFFE_ENFORCE family of enforcement  *)
(* macros, the rich comparison macros (CAFFE_ENFORCE_THAT_IMPL and its     *)
(* wrappers), and the API usage telemetry (C10_LOG_API_USAGE_ONCE,         *)
(* SetAPIUsageLogger, LogAPIUsage).                                        *)
(*                                                                         *)
(* Two specifications share the variables:                                 *)
(*   Spec / SpecFair  the usage telemetry, run by several threads;         *)
(*   SpecEnforce      one execution of an enforcement macro at a call site.*)
(*                                                                         *)
(* Logging.h only declares ThrowEnforceNotMet, ThrowEnforceFiniteNotMet,   *)
(* SetAPIUsageLogger, LogAPIUsage and detail::LogAPIUsageFakeReturn, and   *)
(* c10::str lives in StringUtil.h; their bodies are modelled from the      *)
(* specification of the subsystem.                                         *)
(***************************************************************************)
EXTENDS Integers, Sequences, FiniteSets, TLC

VARIABLES
    \* ---- usage telemetry ----
    guard,          \* per static logFlag variable: its initialization guard
    logFlag,        \* per static logFlag variable: its value once initialized
    usageLogger,    \* the registry slot read by LogAPIUsage
    registrations,  \* history: the arguments of the SetAPIUsageLogger calls
    invocations,    \* history: every call of a usage logger, in order
    directCalls,    \* history: the LogAPIUsage calls made, in order
    pc,             \* per thread: position inside C10_LOG_API_USAGE_ONCE
    at,             \* per thread: the call site being executed
    exec,           \* per thread: which execution of that call site this is
    entered,        \* per call site: executions started
    returned,       \* per call site: executions completed
    \* ---- enforcement ----
    epc,            \* position of the macro execution
    call,           \* the macro executed and its arguments
    lhs_,           \* the lambda's parameter bound to the lhs argument
    rhs_,           \* the lambda's parameter bound to the rhs argument
    bound,          \* which of the lambda's parameters are bound
    evals,          \* per operand expression: how often it was evaluated
    error           \* the error raised, NoError if none

telemetryVars == <<guard, logFlag, usageLogger, registrations, invocations,
                   directCalls,
                   pc, at, exec, entered, returned>>
enforceVars == <<epc, call, lhs_, rhs_, bound, evals, error>>
vars == <<guard, logFlag, usageLogger, registrations, invocations,
          directCalls,
          pc, at, exec, entered, returned,
          epc, call, lhs_, rhs_, bound, evals, error>>

---------------------------------------------------------------------------
(* Bounds of the telemetry model.                                          *)
NThreads == 2
MaxOps == 4

Threads == 1..NThreads

\* Three expansions of C10_LOG_API_USAGE_ONCE; two pass the same literal.
Sites == {"siteA1", "siteA2", "siteB"}
Contexts == {"my_api", "other_api"}
SiteContext(s) == IF s = "siteB" THEN "other_api" ELSE "my_api"

\* The default logger is a no-op; L1 and L2 are recording loggers.
DefaultLogger == "noop"
Loggers == {"L1", "L2"}

NoSite == "none"
Direct == "LogAPIUsage"

\* Faulty variant: one flag per context value.
FlagKeyByContext(s) == SiteContext(s)
\* The key of the static variable a call site's expansion declares: one
\* variable per expansion (C10_ANONYMOUS_VARIABLE(logFlag)).
FlagKey(s) == s
FlagKeys == {FlagKey(s) : s \in Sites}

\* Faulty variant: a static without thread-safe initialization.
GuardAcquireUnsynchronized(g) ==
    IF g = "done" THEN "skip" ELSE "init"
\* Faulty variant: a thread arriving during the initialization skips it
\* without waiting (a compare-and-swap flag).
GuardAcquireNoWait(g) ==
    IF g = "uninit" THEN "init" ELSE "skip"
\* Faulty variant: the initializer runs again after it has completed.
GuardAcquireRearmed(g) ==
    IF g = "initializing" THEN "wait" ELSE "init"
\* Entering the declaration of a block-scope static variable: the first
\* thread initializes it, a thread arriving during the initialization waits
\* for its completion, and later executions skip the initializer.
GuardAcquire(g) ==
    CASE g = "uninit" -> "init"
      [] g = "initializing" -> "wait"
      [] g = "done" -> "skip"

TotalEntered == entered["siteA1"] + entered["siteA2"] + entered["siteB"]
DirectCount == Len(directCalls)
OpsStarted == TotalEntered + Len(registrations) + DirectCount

\* A call of the registered logger, as the recording logger sees it.
InvokeLogger(context, site, n) ==
    Append(invocations,
           [logger |-> usageLogger, context |-> context, site |-> site,
            exec |-> n, reg |-> Len(registrations)])

InitTelemetry ==
    /\ guard = [k \in FlagKeys |-> "uninit"]
    /\ logFlag = [k \in FlagKeys |-> FALSE]
    /\ usageLogger = DefaultLogger
    /\ registrations = <<>>
    /\ invocations = <<>>
    /\ directCalls = <<>>
    /\ pc = [t \in Threads |-> "idle"]
    /\ at = [t \in Threads |-> NoSite]
    /\ exec = [t \in Threads |-> 0]
    /\ entered = [s \in Sites |-> 0]
    /\ returned = [s \in Sites |-> 0]

\* Thread t reaches the expansion of C10_LOG_API_USAGE_ONCE at call site s.
C10_LOG_API_USAGE_ONCE(t, s) ==
    /\ pc[t] = "idle"
    /\ OpsStarted < MaxOps
    /\ entered' = [entered EXCEPT ![s] = @ + 1]
    /\ LET outcome == GuardAcquire(guard[FlagKey(s)]) IN
       CASE outcome = "skip" ->
              /\ returned' = [returned EXCEPT ![s] = @ + 1]
              /\ UNCHANGED <<guard, pc, at, exec>>
         [] outcome = "init" ->
              /\ guard' = [guard EXCEPT ![FlagKey(s)] = "initializing"]
              /\ pc' = [pc EXCEPT ![t] = "init"]
              /\ at' = [at EXCEPT ![t] = s]
              /\ exec' = [exec EXCEPT ![t] = entered[s] + 1]
              /\ UNCHANGED returned
         [] outcome = "wait" ->
              /\ pc' = [pc EXCEPT ![t] = "wait"]
              /\ at' = [at EXCEPT ![t] = s]
              /\ exec' = [exec EXCEPT ![t] = entered[s] + 1]
              /\ UNCHANGED <<guard, returned>>
    /\ UNCHANGED <<logFlag, usageLogger, registrations, invocations,
                   directCalls>>
    /\ UNCHANGED enforceVars

\* The initializer: detail::LogAPIUsageFakeReturn(context) calls the
\* registered logger with the context.
LogAPIUsageFakeReturn(t) ==
    /\ pc[t] = "init"
    /\ invocations' = InvokeLogger(SiteContext(at[t]), at[t], exec[t])
    /\ pc' = [pc EXCEPT ![t] = "logging"]
    /\ UNCHANGED <<guard, logFlag, usageLogger, registrations, directCalls,
                   at, exec, entered, returned>>
    /\ UNCHANGED enforceVars

\* The logger returns, LogAPIUsageFakeReturn returns true, the static
\* variable is initialized and its guard released.
StaticInitComplete(t) ==
    /\ pc[t] = "logging"
    /\ logFlag' = [logFlag EXCEPT ![FlagKey(at[t])] = TRUE]
    /\ guard' = [guard EXCEPT ![FlagKey(at[t])] = "done"]
    /\ returned' = [returned EXCEPT ![at[t]] = @ + 1]
    /\ pc' = [pc EXCEPT ![t] = "idle"]
    /\ at' = [at EXCEPT ![t] = NoSite]
    /\ exec' = [exec EXCEPT ![t] = 0]
    /\ UNCHANGED <<usageLogger, registrations, invocations, directCalls,
                   entered>>
    /\ UNCHANGED enforceVars

\* A thread that waited for the initialization continues past the
\* declaration once the initialization has completed.
GuardWaitOver(t) ==
    /\ pc[t] = "wait"
    /\ guard[FlagKey(at[t])] = "done"
    /\ returned' = [returned EXCEPT ![at[t]] = @ + 1]
    /\ pc' = [pc EXCEPT ![t] = "idle"]
    /\ at' = [at EXCEPT ![t] = NoSite]
    /\ exec' = [exec EXCEPT ![t] = 0]
    /\ UNCHANGED <<guard, logFlag, usageLogger, registrations, invocations,
                   directCalls, entered>>
    /\ UNCHANGED enforceVars

\* SetAPIUsageLogger(logger) replaces the registry slot. Registration is
\* serialized with the reads of the slot: no logger call is in flight.
SetAPIUsageLogger(logger) ==
    /\ OpsStarted < MaxOps
    /\ \A t \in Threads : pc[t] # "logging"
    /\ usageLogger' = logger
    /\ registrations' = Append(registrations, logger)
    /\ UNCHANGED <<guard, logFlag, invocations, directCalls, pc, at, exec,
                   entered, returned>>
    /\ UNCHANGED enforceVars

\* Faulty variant: calls the logger registered before the latest one.
LogAPIUsagePrevious(context) ==
    /\ OpsStarted < MaxOps
    /\ directCalls' = Append(directCalls, [context |-> context,
                                            reg |-> Len(registrations)])
    /\ invocations' =
          Append(invocations,
                 [logger |-> IF Len(registrations) <= 1 THEN DefaultLogger
                             ELSE registrations[Len(registrations) - 1],
                  context |-> context, site |-> Direct, exec |-> 0,
                  reg |-> Len(registrations)])
    /\ UNCHANGED <<guard, logFlag, usageLogger, registrations, pc, at, exec,
                   entered, returned>>
    /\ UNCHANGED enforceVars

\* LogAPIUsage(context) calls the registered logger, every time.
LogAPIUsage(context) ==
    /\ OpsStarted < MaxOps
    /\ directCalls' = Append(directCalls, [context |-> context,
                                            reg |-> Len(registrations)])
    /\ invocations' = InvokeLogger(context, Direct, 0)
    /\ UNCHANGED <<guard, logFlag, usageLogger, registrations, pc, at, exec,
                   entered, returned>>
    /\ UNCHANGED enforceVars

ThreadStep(t) ==
    \/ LogAPIUsageFakeReturn(t)
    \/ StaticInitComplete(t)
    \/ GuardWaitOver(t)

---------------------------------------------------------------------------
(* Enforcement: one execution of an enforcement macro at a call site.      *)

\* Bound of the enforcement model: operand values range over -1..MaxOperand.
MaxOperand == 5
Values == -1..MaxOperand

\* Printable arguments of c10::str.
IntArg(n) == [t |-> "int", v |-> n]
StrArg(x) == [t |-> "str", v |-> x]

\* Decimal rendering of an integer, as operator<< writes it.
RECURSIVE IntToStr(_)
Digit(d) == SubSeq("0123456789", d + 1, d + 1)
IntToStr(n) ==
    IF n < 0 THEN "-" \o IntToStr(-n)
    ELSE IF n < 10 THEN Digit(n)
    ELSE IntToStr(n \div 10) \o Digit(n % 10)

Render(a) == IF a.t = "int" THEN IntToStr(a.v) ELSE a.v

\* c10::str(args...): the renderings of the arguments, concatenated in
\* order; no argument gives the empty message.
RECURSIVE str(_)
str(args) ==
    IF args = <<>> THEN "" ELSE Render(Head(args)) \o str(Tail(args))

NoError == [kind |-> "none"]
NoCaller == "nullptr"
This == "this"

\* ThrowEnforceNotMet raises the general enforcement error, carrying its
\* arguments; it does not return.
ThrowEnforceNotMet(file, line, condition, msg, caller) ==
    [kind |-> "EnforceNotMet", file |-> file, line |-> line,
     condition |-> condition, msg |-> msg, caller |-> caller]

\* ThrowEnforceFiniteNotMet raises the error kind of the finite checks.
ThrowEnforceFiniteNotMet(file, line, condition, msg, caller) ==
    [kind |-> "EnforceFiniteNotMet", file |-> file, line |-> line,
     condition |-> condition, msg |-> msg, caller |-> caller]

\* Faulty variant: the test of the condition is not negated.
CAFFE_ENFORCE_Inverted(file, line, c, text, args) ==
    IF c
    THEN ThrowEnforceNotMet(file, line, text, str(args), NoCaller)
    ELSE NoError
\* The macros of the CAFFE_ENFORCE family: the error raised, NoError when
\* the macro falls through. c is the value of the condition, text its
\* stringification (#condition), args the variadic arguments.
CAFFE_ENFORCE(file, line, c, text, args) ==
    IF ~c
    THEN ThrowEnforceNotMet(file, line, text, str(args), NoCaller)
    ELSE NoError

\* Faulty variant: the finite check throws through ThrowEnforceNotMet.
CAFFE_ENFORCE_FINITE_General(file, line, c, text, args) ==
    IF ~c
    THEN ThrowEnforceNotMet(file, line, text, str(args), NoCaller)
    ELSE NoError
CAFFE_ENFORCE_FINITE(file, line, c, text, args) ==
    IF ~c
    THEN ThrowEnforceFiniteNotMet(file, line, text, str(args), NoCaller)
    ELSE NoError

CAFFE_ENFORCE_WITH_CALLER(file, line, c, text, args) ==
    IF ~c
    THEN ThrowEnforceNotMet(file, line, text, str(args), This)
    ELSE NoError

EnforceMacros ==
    {"CAFFE_ENFORCE", "CAFFE_ENFORCE_FINITE", "CAFFE_ENFORCE_WITH_CALLER"}

\* Faulty variant: the ". " before the extra arguments is missing.
enforceFailMsgImplNoSeparator(x, y, args) ==
    str(<<x, StrArg(" vs "), y>> \o args)
\* enforce_detail::enforceFailMsgImpl, both overloads: args is the pack of
\* extra arguments, empty for the two-argument overload.
enforceFailMsgImpl(x, y, args) ==
    IF args = <<>>
    THEN str(<<x, StrArg(" vs "), y>>)
    ELSE str(<<x, StrArg(" vs "), y, StrArg(". ")>> \o args)

\* The comparison wrappers and the operator each hands to
\* CAFFE_ENFORCE_BINARY_OP.
CompareMacros ==
    {"CAFFE_ENFORCE_EQ", "CAFFE_ENFORCE_NE", "CAFFE_ENFORCE_LE",
     "CAFFE_ENFORCE_LT", "CAFFE_ENFORCE_GE", "CAFFE_ENFORCE_GT"}
BinaryOp(m) ==
    CASE m = "CAFFE_ENFORCE_EQ" -> "=="
      [] m = "CAFFE_ENFORCE_NE" -> "!="
      [] m = "CAFFE_ENFORCE_LE" -> "<="
      [] m = "CAFFE_ENFORCE_LT" -> "<"
      [] m = "CAFFE_ENFORCE_GE" -> ">="
      [] m = "CAFFE_ENFORCE_GT" -> ">"

\* lhs_ op rhs_
ApplyOp(op, a, b) ==
    CASE op = "==" -> a = b
      [] op = "!=" -> a # b
      [] op = "<=" -> a <= b
      [] op = "<" -> a < b
      [] op = ">=" -> a >= b
      [] op = ">" -> a > b

\* CAFFE_ENFORCE_BINARY_OP's expr argument: #x " " #op " " #y.
Stringify(x, op, y) == x.text \o " " \o op \o " " \o y.text

\* An operand expression: its source text, and its value as a function of
\* how often it was evaluated before (step 0: pure, step 1: like i++).
OperandExprs(pure, counting) ==
    {[text |-> pure, base |-> v, step |-> 0] : v \in Values}
    \cup {[text |-> counting, base |-> v, step |-> 1] : v \in Values}
Eval(e, n) == e.base + n * e.step

\* What the lambda of CAFFE_ENFORCE_THAT_IMPL reads: in the comparison and
\* in the failure message it names its parameters lhs_ and rhs_, never the
\* macro arguments lhs and rhs (which would evaluate the operand again).
\* CAFFE_ENFORCE_THAT_IMPL_WITH_CALLER reads the same.
ThatImplCompareRefs == <<"lhs_", "rhs_">>
\* Faulty variant: the message names the macro arguments.
ThatImplMessageRefsReevaluated == <<"lhs", "rhs">>
ThatImplMessageRefs == <<"lhs_", "rhs_">>

\* The value a reference yields, n the evaluations of its operand so far.
Resolve(ref, n) ==
    CASE ref = "lhs_" -> lhs_
      [] ref = "rhs_" -> rhs_
      [] ref = "lhs" -> Eval(call.lhs, n)
      [] ref = "rhs" -> Eval(call.rhs, n)
\* The evaluations of operand which that reading refs costs.
EvalsIn(refs, which) ==
    Cardinality({i \in 1..Len(refs) : refs[i] = which})

Files == {"op.cc"}
Lines == {42, 157}
Conditions == {[text |-> "x > 0", value |-> b] : b \in BOOLEAN}
                \cup {[text |-> "std::isfinite(v)", value |-> b] : b \in BOOLEAN}
MessageArgs ==
    {<<>>, <<StrArg("bad input")>>, <<StrArg("dim "), IntArg(12)>>,
     <<StrArg("")>>}

InitEnforce ==
    /\ epc = "ready"
    /\ call = [macro |-> "none"]
    /\ lhs_ = 0
    /\ rhs_ = 0
    /\ bound = {}
    /\ evals = [e \in {"lhs", "rhs", "condition"} |-> 0]
    /\ error = NoError

\* Control reaches a CAFFE_ENFORCE, CAFFE_ENFORCE_FINITE or
\* CAFFE_ENFORCE_WITH_CALLER statement.
ReachEnforce ==
    /\ epc = "ready"
    /\ \E m \in EnforceMacros, file \in Files, line \in Lines,
          cond \in Conditions, args \in MessageArgs :
          call' = [macro |-> m, file |-> file, line |-> line,
                   condition |-> cond, args |-> args]
    /\ epc' = "condition"
    /\ UNCHANGED <<lhs_, rhs_, bound, evals, error>>
    /\ UNCHANGED telemetryVars

\* if (!(condition)) Throw...(__FILE__, __LINE__, #condition, str(...))
EnforceCheck ==
    /\ epc = "condition"
    /\ evals' = [evals EXCEPT !["condition"] = @ + 1]
    /\ LET c == call.condition.value
           text == call.condition.text
           raised ==
             CASE call.macro = "CAFFE_ENFORCE" ->
                    CAFFE_ENFORCE(call.file, call.line, c, text, call.args)
               [] call.macro = "CAFFE_ENFORCE_FINITE" ->
                    CAFFE_ENFORCE_FINITE(call.file, call.line, c, text,
                                         call.args)
               [] call.macro = "CAFFE_ENFORCE_WITH_CALLER" ->
                    CAFFE_ENFORCE_WITH_CALLER(call.file, call.line, c, text,
                                              call.args)
       IN /\ error' = raised
          /\ epc' = IF raised = NoError THEN "returned" ELSE "raised"
    /\ UNCHANGED <<call, lhs_, rhs_, bound>>
    /\ UNCHANGED telemetryVars

\* Control reaches a comparison macro: CAFFE_ENFORCE_EQ(x, y, ...) and its
\* siblings expand to CAFFE_ENFORCE_THAT_IMPL(op, x, y, #x " " #op " " #y,
\* ...), the _WITH_CALLER ones to CAFFE_ENFORCE_THAT_IMPL_WITH_CALLER.
ReachCompare ==
    /\ epc = "ready"
    /\ \E m \in CompareMacros, withCaller \in BOOLEAN, file \in Files,
          line \in Lines, x \in OperandExprs("x", "i++"),
          y \in OperandExprs("y", "next()"), extra \in MessageArgs :
          call' = [macro |-> m, withCaller |-> withCaller,
                   file |-> file, line |-> line, op |-> BinaryOp(m),
                   lhs |-> x, rhs |-> y,
                   expr |-> Stringify(x, BinaryOp(m), y), args |-> extra]
    /\ epc' = "arguments"
    /\ UNCHANGED <<lhs_, rhs_, bound, evals, error>>
    /\ UNCHANGED telemetryVars

\* The call (lambda)(lhs, rhs) evaluates each argument expression and binds
\* the parameter to its value; the order of the two is unspecified.
EvalArgument(which) ==
    /\ epc = "arguments"
    /\ which \notin bound
    /\ evals' = [evals EXCEPT ![which] = @ + 1]
    /\ IF which = "lhs"
       THEN lhs_' = Eval(call.lhs, evals["lhs"]) /\ UNCHANGED rhs_
       ELSE rhs_' = Eval(call.rhs, evals["rhs"]) /\ UNCHANGED lhs_
    /\ bound' = bound \cup {which}
    /\ UNCHANGED <<epc, call, error>>
    /\ UNCHANGED telemetryVars

\* The body of the lambda: the comparison and, when it fails, the throw
\* with the message built by enforceFailMsgImpl.
LambdaBody ==
    /\ epc = "arguments"
    /\ bound = {"lhs", "rhs"}
    /\ LET cl == Resolve(ThatImplCompareRefs[1], evals["lhs"])
           cr == Resolve(ThatImplCompareRefs[2], evals["rhs"])
           nl == evals["lhs"] + EvalsIn(ThatImplCompareRefs, "lhs")
           nr == evals["rhs"] + EvalsIn(ThatImplCompareRefs, "rhs")
       IN IF ~ ApplyOp(call.op, cl, cr)
          THEN LET ml == Resolve(ThatImplMessageRefs[1], nl)
                   mr == Resolve(ThatImplMessageRefs[2], nr)
               IN /\ error' = ThrowEnforceNotMet(
                                 call.file, call.line, call.expr,
                                 enforceFailMsgImpl(IntArg(ml), IntArg(mr),
                                                    call.args),
                                 IF call.withCaller THEN This ELSE NoCaller)
                  /\ evals' = [evals EXCEPT
                                 !["lhs"] = nl + EvalsIn(ThatImplMessageRefs,
                                                         "lhs"),
                                 !["rhs"] = nr + EvalsIn(ThatImplMessageRefs,
                                                         "rhs")]
                  /\ epc' = "raised"
          ELSE /\ error' = NoError
               /\ evals' = [evals EXCEPT !["lhs"] = nl, !["rhs"] = nr]
               /\ epc' = "returned"
    /\ UNCHANGED <<call, lhs_, rhs_, bound>>
    /\ UNCHANGED telemetryVars

NextEnforce ==
    \/ ReachEnforce
    \/ EnforceCheck
    \/ ReachCompare
    \/ \E which \in {"lhs", "rhs"} : EvalArgument(which)
    \/ LambdaBody

Init == InitTelemetry /\ InitEnforce

Next ==
    \/ \E t \in Threads, s \in Sites : C10_LOG_API_USAGE_ONCE(t, s)
    \/ \E t \in Threads : LogAPIUsageFakeReturn(t)
    \/ \E t \in Threads : StaticInitComplete(t)
    \/ \E t \in Threads : GuardWaitOver(t)
    \/ \E logger \in Loggers : SetAPIUsageLogger(logger)
    \/ \E context \in Contexts : LogAPIUsage(context)

Spec == Init /\ [][Next]_vars

SpecEnforce == Init /\ [][NextEnforce]_vars

\* Every runnable thread is scheduled and a logger call returns.
SpecFair == Spec /\ \A t \in Threads : WF_vars(ThreadStep(t))

---------------------------------------------------------------------------
(* Properties of the usage telemetry.                                      *)

\* The logger calls made through call site s, in order.
Via(s) == SelectSeq(invocations, LAMBDA r : r.site = s)
\* The logger calls made by LogAPIUsage, in order.
DirectInvocations == SelectSeq(invocations, LAMBDA r : r.site = Direct)
\* The logger in the registry after the first n registrations.
RegisteredAfter(n) == IF n = 0 THEN DefaultLogger ELSE registrations[n]

(* C1: when several threads reach the same C10_LOG_API_USAGE_ONCE call     *)
(* site concurrently for the first time, the usage logger is called        *)
(* exactly once for that call site in every interleaving (never twice, and *)
(* once as soon as one of the calls has returned), and every thread that   *)
(* entered the call site eventually returns from it.                       *)
C1_OnceUnderRace ==
    /\ [](\A s \in Sites :
            /\ Len(Via(s)) <= 1
            /\ (returned[s] >= 1 => Len(Via(s)) = 1))
    /\ \A t \in Threads : (pc[t] # "idle") ~> (pc[t] = "idle")

\* The winner has logged once and returned while a thread that raced with
\* it is still inside the call site.
C1_Witness ==
    \E s \in Sites : \E t \in Threads :
        /\ pc[t] = "wait" /\ at[t] = s
        /\ guard[FlagKey(s)] = "done"
        /\ returned[s] = 1
        /\ Len(Via(s)) = 1

(* C2: however often a call site is executed, the logger is called through *)
(* it exactly once, by the first execution, with the context written at    *)
(* the call site and on the logger registered at that moment; executions   *)
(* 2..k call no logger.                                                    *)
C2_OnceSequential ==
    \A s \in Sites :
        /\ Len(Via(s)) <= 1
        /\ (returned[s] >= 1 => Len(Via(s)) = 1)
        /\ \A i \in 1..Len(Via(s)) :
              /\ Via(s)[i].exec = 1
              /\ Via(s)[i].context = SiteContext(s)
              /\ Via(s)[i].logger = RegisteredAfter(Via(s)[i].reg)

\* A call site executed three times, all returned, with one call of a
\* recording logger.
C2_Witness ==
    \E s \in Sites :
        /\ entered[s] = 3 /\ returned[s] = 3
        /\ Len(Via(s)) = 1
        /\ Via(s)[1].logger \in Loggers
        /\ Via(s)[1].context = SiteContext(s)

C4_PerCallSite ==
    /\ \A s \in Sites : (guard[FlagKey(s)] = "uninit") <=> (entered[s] = 0)
    /\ \A s1, s2 \in Sites :
          (s1 # s2 /\ SiteContext(s1) = SiteContext(s2)
             /\ returned[s1] >= 1 /\ returned[s2] >= 1)
          => Len(SelectSeq(invocations,
                   LAMBDA r : r.site \in {s1, s2}
                              /\ r.context = SiteContext(s1))) = 2

\* Both call sites passing "my_api" have fired.
C4_Witness ==
    /\ returned["siteA1"] >= 1 /\ returned["siteA2"] >= 1
    /\ Len(Via("siteA1")) = 1 /\ Len(Via("siteA2")) = 1
    /\ Via("siteA1")[1].context = Via("siteA2")[1].context

(* C5: every LogAPIUsage(ctx) calls exactly one logger, once, with ctx:    *)
(* the logger given to the latest SetAPIUsageLogger completed before it    *)
(* (the no-op default if there was none), never an earlier one.            *)
C5_LoggerReplacement ==
    /\ Len(DirectInvocations) = Len(directCalls)
    /\ \A i \in 1..Len(directCalls) :
          /\ i <= Len(DirectInvocations)
          /\ DirectInvocations[i].context = directCalls[i].context
          /\ DirectInvocations[i].logger = RegisteredAfter(directCalls[i].reg)

\* LogAPIUsage after two registrations of different loggers.
C5_Witness ==
    /\ Len(registrations) = 2
    /\ registrations[1] # registrations[2]
    /\ \E i \in 1..Len(directCalls) :
          /\ directCalls[i].reg = 2
          /\ DirectInvocations[i].logger = registrations[2]

(* C10: once a call site has fired its flag stays set and no later step    *)
(* calls a logger through it, whatever logger SetAPIUsageLogger registers  *)
(* afterwards, while a LogAPIUsage made after the replacement calls the    *)
(* new logger.                                                             *)
C10_NoRearm ==
    /\ [][\A s \in Sites :
            logFlag[FlagKey(s)] =>
              /\ logFlag'[FlagKey(s)]
              /\ Via(s)' = Via(s)]_vars
    /\ [](\A s \in Sites : \A i \in 1..Len(Via(s)) :
            \A j \in 1..Len(DirectInvocations) :
               DirectInvocations[j].reg > Via(s)[i].reg
                 => DirectInvocations[j].logger
                      = registrations[DirectInvocations[j].reg])

\* A call site fired, the logger was replaced, the call site was executed
\* again and LogAPIUsage reached the new logger.
C10_Witness ==
    \E s \in Sites :
        /\ logFlag[FlagKey(s)]
        /\ entered[s] >= 2 /\ returned[s] = entered[s]
        /\ Len(Via(s)) = 1
        /\ Via(s)[1].reg < Len(registrations)
        /\ \E j \in 1..Len(DirectInvocations) :
              /\ DirectInvocations[j].reg = Len(registrations)
              /\ DirectInvocations[j].logger # Via(s)[1].logger

---------------------------------------------------------------------------
(* Properties of the enforcement macros.                                   *)

IsCompare == call.macro \in CompareMacros
Finished == epc \in {"returned", "raised"}

(* C6: one execution of a comparison macro (CAFFE_ENFORCE_EQ/NE/LE/LT/GE/  *)
(* GT, with or without caller) evaluates its lhs expression exactly once   *)
(* and its rhs expression exactly once, whether the comparison passes or   *)
(* fails and the operands are rendered into the failure message.           *)
C6_OperandsEvaluatedOnce ==
    IsCompare =>
      /\ evals["lhs"] <= 1 /\ evals["rhs"] <= 1
      /\ (Finished => evals["lhs"] = 1 /\ evals["rhs"] = 1)

\* A failed comparison with caller and extra arguments whose operands both
\* have side effects.
C6_Witness ==
    /\ IsCompare /\ epc = "raised"
    /\ call.withCaller
    /\ call.lhs.step = 1 /\ call.rhs.step = 1
    /\ call.args # <<>>
    /\ evals["lhs"] = 1 /\ evals["rhs"] = 1

(* C7: CAFFE_ENFORCE with a true condition raises nothing and control      *)
(* continues after the statement; with a false condition it raises an      *)
(* error carrying the call site's file and line, the text of the condition *)
(* and the message made of the arguments, and control does not continue:   *)
(* no step follows the raise.                                              *)
C7_EnforceRaisesIffFalse ==
    /\ []((call.macro = "CAFFE_ENFORCE" /\ Finished) =>
            IF call.condition.value
            THEN epc = "returned" /\ error = NoError
            ELSE /\ epc = "raised"
                 /\ error.kind # "none"
                 /\ error.file = call.file
                 /\ error.line = call.line
                 /\ error.condition = call.condition.text
                 /\ error.msg = str(call.args))
    /\ [][epc # "raised"]_vars

\* CAFFE_ENFORCE(x > 0, "dim ", 12) failed.
C7_Witness ==
    /\ call.macro = "CAFFE_ENFORCE" /\ epc = "raised"
    /\ ~ call.condition.value
    /\ error.condition = "x > 0"
    /\ error.msg = "dim 12"
    /\ error.line = 157

(* C8: when lhs op rhs is false the error's condition text is the          *)
(* stringified expression and its message is render(lhs) " vs "            *)
(* render(rhs), followed by ". " and the rendered extra arguments when     *)
(* extra arguments are given; 3 == 4 gives "3 vs 4".                       *)
C8_ComparisonMessage ==
    (IsCompare /\ epc = "raised") =>
      /\ ~ ApplyOp(call.op, lhs_, rhs_)
      /\ error.condition
           = call.lhs.text \o " " \o call.op \o " " \o call.rhs.text
      /\ error.msg
           = IntToStr(lhs_) \o " vs " \o IntToStr(rhs_)
               \o (IF call.args = <<>> THEN "" ELSE ". " \o str(call.args))
      /\ (lhs_ = 3 /\ rhs_ = 4 /\ call.args = <<>> => error.msg = "3 vs 4")
      /\ (lhs_ = 3 /\ rhs_ = 4 /\ call.args = <<StrArg("dim "), IntArg(12)>>
            => error.msg = "3 vs 4. dim 12")

\* CAFFE_ENFORCE_EQ(x, y) with x = 3 and y = 4.
C8_Witness ==
    /\ IsCompare /\ epc = "raised"
    /\ call.op = "=="
    /\ lhs_ = 3 /\ rhs_ = 4
    /\ call.args = <<>>
    /\ error.condition = "x == y"
    /\ error.msg = "3 vs 4"

(* C9: a failed CAFFE_ENFORCE_FINITE raises the error kind of the finite   *)
(* checks and a failed CAFFE_ENFORCE the general kind, so that for the     *)
(* same false condition the two errors differ in kind.                     *)
C9_FiniteKindDistinct ==
    (call.macro \in EnforceMacros /\ epc = "raised") =>
      /\ (error.kind = "EnforceFiniteNotMet"
            <=> call.macro = "CAFFE_ENFORCE_FINITE")
      /\ (call.macro = "CAFFE_ENFORCE" => error.kind = "EnforceNotMet")
      /\ CAFFE_ENFORCE(call.file, call.line, call.condition.value,
                       call.condition.text, call.args).kind
           # CAFFE_ENFORCE_FINITE(call.file, call.line, call.condition.value,
                                  call.condition.text, call.args).kind

\* CAFFE_ENFORCE_FINITE failed.
C9_Witness ==
    /\ call.macro = "CAFFE_ENFORCE_FINITE" /\ epc = "raised"
    /\ ~ call.condition.value
    /\ error.kind = "EnforceFiniteNotMet"

=============================================================================
